---- MODULE Spec2Model ----
(***************************************************************************)
(* BadmintonManager (src/app.py): the rotation and team-matching engine.   *)
(* Participants are registered and removed, courts are resized, idle       *)
(* courts are filled with 2v2 matches chosen by rest/play priority and a   *)
(* partner/opponent cost, and matches are finished into the history.       *)
(*                                                                         *)
(* Names are the integers 1..n (Python compares the name strings with <,   *)
(* the model compares the integers); 0 is the empty string.                *)
(* self.players is a list without duplicates whose order is read only by   *)
(* random.shuffle and by order-insensitive loops: it is modelled as a set. *)
(* A dict is a function whose DOMAIN is the dict's key set.                *)
(***************************************************************************)
EXTENDS Integers, Sequences, FiniteSets

VARIABLES players, courts_num, play_counts, consecutive_rests,
          partner_history, opponent_history, match_history,
          courts_status, busy_players, ret, ops

vars == <<players, courts_num, play_counts, consecutive_rests,
          partner_history, opponent_history, match_history,
          courts_status, busy_players, ret, ops>>

(* ------------------------------ bounds --------------------------------- *)
\* Names the caller may type in the main specification.
NumNames == 7
\* Largest court number the caller asks for.
MaxCourts == 2
\* Calls the caller makes in one session.
MaxOps == 8
\* The closing-court specification: eight names, a longer session, and a round
\* asked for only while at most MaxWaiting players wait.
NumNamesClosing == 8
MaxOpsClosing == 12
MaxWaiting == 4
MaxHistoryClosing == 1

Names == 1..NumNames
NamesClosing == 1..NumNamesClosing
\* The names the caller may remove in the closing-court session.
LeaversClosing == {1}

(* --------------------------- program constants ------------------------- *)
InitCourtsNum == 2
PartnerWeight == 1000
TeamSize == 4

(* ------------------------------ values --------------------------------- *)
\* None in a court: the record of a match with nobody in it.
None == [team1 |-> <<>>, team2 |-> <<>>, players |-> <<>>]

\* dict.get(key, default)
Get(d, k, default) == IF k \in DOMAIN d THEN d[k] ELSE default

\* tuple(sorted((p1, p2)))
SortedPair(p1, p2) == IF p1 <= p2 THEN <<p1, p2>> ELSE <<p2, p1>>

\* The raw text a caller types: a core name (0: nothing), bare or with blanks
\* around it.
RawNames(S) == [core : S \cup {0}, blanks : BOOLEAN]

\* str.strip(): the blanks at both ends go, the core stays.
Strip(raw) == raw.core

SeqToSet(s) == {s[i] : i \in 1..Len(s)}

RECURSIVE SumOver(_, _)
SumOver(f, S) ==
    IF S = {} THEN 0
    ELSE LET x == CHOOSE y \in S : TRUE IN f[x] + SumOver(f, S \ {x})

\* The last call and what it returned: its argument (a name, a court count or
\* a court id; 0 without one), success, the kind of message, the log list.
Return(op, arg, ok, msg, logs) ==
    [op |-> op, arg |-> arg, ok |-> ok, msg |-> msg, logs |-> logs]

(* ------------------------------- Init ---------------------------------- *)
\* __init__ and _init_courts
Init ==
    /\ players = {}
    /\ courts_num = InitCourtsNum
    /\ play_counts = <<>>
    /\ consecutive_rests = <<>>
    /\ partner_history = <<>>
    /\ opponent_history = <<>>
    /\ match_history = <<>>
    /\ courts_status = [i \in 1..InitCourtsNum |-> None]
    /\ busy_players = {}
    /\ ret = Return("init", 0, TRUE, "", <<>>)
    /\ ops = 0

(* ----------------------------- add_player ------------------------------ *)
\* The duplicate test made on play_counts: a removed name counts as present.
add_player_known(raw) ==
    LET name == Strip(raw) IN
    IF name = 0 THEN
        /\ ret' = Return("add_player", name, FALSE, "empty", <<>>)
        /\ UNCHANGED <<players, courts_num, play_counts, consecutive_rests,
                       partner_history, opponent_history, match_history,
                       courts_status, busy_players>>
    ELSE IF name \in DOMAIN play_counts THEN
        /\ ret' = Return("add_player", name, FALSE, "duplicate", <<>>)
        /\ UNCHANGED <<players, courts_num, play_counts, consecutive_rests,
                       partner_history, opponent_history, match_history,
                       courts_status, busy_players>>
    ELSE
        /\ players' = players \cup {name}
        /\ play_counts' = [p \in DOMAIN play_counts \cup {name} |->
                              IF p = name THEN 0 ELSE play_counts[p]]
        /\ consecutive_rests' = [p \in DOMAIN consecutive_rests \cup {name} |->
                                    IF p = name THEN 0 ELSE consecutive_rests[p]]
        /\ ret' = Return("add_player", name, TRUE, "added", <<>>)
        /\ UNCHANGED <<courts_num, partner_history, opponent_history,
                       match_history, courts_status, busy_players>>

add_player(raw) ==
    LET name == Strip(raw) IN
    IF name = 0 THEN
        /\ ret' = Return("add_player", name, FALSE, "empty", <<>>)
        /\ UNCHANGED <<players, courts_num, play_counts, consecutive_rests,
                       partner_history, opponent_history, match_history,
                       courts_status, busy_players>>
    ELSE IF name \in players THEN
        /\ ret' = Return("add_player", name, FALSE, "duplicate", <<>>)
        /\ UNCHANGED <<players, courts_num, play_counts, consecutive_rests,
                       partner_history, opponent_history, match_history,
                       courts_status, busy_players>>
    ELSE
        /\ players' = players \cup {name}
        /\ play_counts' = [p \in DOMAIN play_counts \cup {name} |->
                              IF p = name THEN 0 ELSE play_counts[p]]
        /\ consecutive_rests' = [p \in DOMAIN consecutive_rests \cup {name} |->
                                    IF p = name THEN 0 ELSE consecutive_rests[p]]
        /\ ret' = Return("add_player", name, TRUE, "added", <<>>)
        /\ UNCHANGED <<courts_num, partner_history, opponent_history,
                       match_history, courts_status, busy_players>>

(* ---------------------------- remove_player ---------------------------- *)
\* The removal that also resets the play count of the participant.
remove_player_forget(name) ==
    IF name \notin players THEN
        /\ ret' = Return("remove_player", name, FALSE, "notfound", <<>>)
        /\ UNCHANGED <<players, courts_num, play_counts, consecutive_rests,
                       partner_history, opponent_history, match_history,
                       courts_status, busy_players>>
    ELSE IF name \in busy_players THEN
        /\ ret' = Return("remove_player", name, FALSE, "busy", <<>>)
        /\ UNCHANGED <<players, courts_num, play_counts, consecutive_rests,
                       partner_history, opponent_history, match_history,
                       courts_status, busy_players>>
    ELSE
        /\ players' = players \ {name}
        /\ consecutive_rests' = [p \in DOMAIN consecutive_rests \ {name} |->
                                    consecutive_rests[p]]
        /\ play_counts' = [p \in DOMAIN play_counts |->
                              IF p = name THEN 0 ELSE play_counts[p]]
        /\ ret' = Return("remove_player", name, TRUE, "removed", <<>>)
        /\ UNCHANGED <<courts_num, partner_history, opponent_history,
                       match_history, courts_status, busy_players>>

\* The removal without the test for a running match.
remove_player_unguarded(name) ==
    IF name \notin players THEN
        /\ ret' = Return("remove_player", name, FALSE, "notfound", <<>>)
        /\ UNCHANGED <<players, courts_num, play_counts, consecutive_rests,
                       partner_history, opponent_history, match_history,
                       courts_status, busy_players>>
    ELSE
        /\ players' = players \ {name}
        /\ consecutive_rests' = [p \in DOMAIN consecutive_rests \ {name} |->
                                    consecutive_rests[p]]
        /\ ret' = Return("remove_player", name, TRUE, "removed", <<>>)
        /\ UNCHANGED <<courts_num, play_counts, partner_history, opponent_history,
                       match_history, courts_status, busy_players>>

remove_player(name) ==
    IF name \notin players THEN
        /\ ret' = Return("remove_player", name, FALSE, "notfound", <<>>)
        /\ UNCHANGED <<players, courts_num, play_counts, consecutive_rests,
                       partner_history, opponent_history, match_history,
                       courts_status, busy_players>>
    ELSE IF name \in busy_players THEN
        /\ ret' = Return("remove_player", name, FALSE, "busy", <<>>)
        /\ UNCHANGED <<players, courts_num, play_counts, consecutive_rests,
                       partner_history, opponent_history, match_history,
                       courts_status, busy_players>>
    ELSE
        /\ players' = players \ {name}
        /\ consecutive_rests' = [p \in DOMAIN consecutive_rests \ {name} |->
                                    consecutive_rests[p]]
        /\ ret' = Return("remove_player", name, TRUE, "removed", <<>>)
        /\ UNCHANGED <<courts_num, play_counts, partner_history, opponent_history,
                       match_history, courts_status, busy_players>>

(* -------------------------- update_courts_num -------------------------- *)
\* The courts update_courts_num writes None into: range(courts_num + 1, num + 1).
NewCourtIds(num) == (courts_num + 1)..num

update_courts_num(num) ==
    IF num < 1 THEN
        /\ ret' = Return("update_courts_num", num, TRUE, "ignored", <<>>)
        /\ UNCHANGED <<players, courts_num, play_counts, consecutive_rests,
                       partner_history, opponent_history, match_history,
                       courts_status, busy_players>>
    ELSE
        /\ courts_status' = [i \in DOMAIN courts_status \cup NewCourtIds(num) |->
                                IF i \in NewCourtIds(num) THEN None
                                ELSE courts_status[i]]
        /\ courts_num' = num
        /\ ret' = Return("update_courts_num", num, TRUE, "set", <<>>)
        /\ UNCHANGED <<players, play_counts, consecutive_rests, partner_history,
                       opponent_history, match_history, busy_players>>

(* ------------------------ costs of a pair ------------------------------ *)
get_pair_cost(p1, p2) == Get(partner_history, SortedPair(p1, p2), 0)

get_opponent_cost(p1, p2) == Get(opponent_history, SortedPair(p1, p2), 0)

(* ------------------------ get_available_players ------------------------ *)
\* The pool taken from play_counts: whoever was ever registered and is not busy.
get_available_players_ever(busy) == DOMAIN play_counts \ busy

\* [p for p in self.players if p not in self.busy_players], for the busy set
\* the loop of fill_empty_courts has built so far.
get_available_players(busy) == players \ busy

(* ------------------- random.shuffle and the priority sort -------------- *)
\* The minus sign of the key forgotten: the least rested come first.
KeyLERestAscending(pc, x, y) ==
    LET rx == Get(consecutive_rests, x, 0)
        ry == Get(consecutive_rests, y, 0)
    IN  \/ rx < ry
        \/ rx = ry /\ Get(pc, x, 0) <= Get(pc, y, 0)

\* key=lambda x: (-consecutive_rests.get(x, 0), play_counts.get(x, 0)), as
\* "the key of x is at most the key of y" on Python's tuple order.
KeyLE(pc, x, y) ==
    LET rx == Get(consecutive_rests, x, 0)
        ry == Get(consecutive_rests, y, 0)
    IN  \/ rx > ry
        \/ rx = ry /\ Get(pc, x, 0) <= Get(pc, y, 0)

\* The players the sorted list can start with: those of the least key. The
\* sort is stable and runs on a shuffled list, so which of them comes first
\* is the shuffle's choice.
Foremost(pc, available) == {x \in available : \A y \in available : KeyLE(pc, x, y)}

\* random.shuffle(available); available.sort(key=...); available[:k]: every
\* list of k players the shuffle and the stable sort can put in front.
RECURSIVE SortedPrefixes(_, _, _)
SortedPrefixes(pc, available, k) ==
    IF k = 0 THEN {<<>>}
    ELSE UNION {{<<x>> \o s : s \in SortedPrefixes(pc, available \ {x}, k - 1)}
                : x \in Foremost(pc, available)}

\* group = available[:4], for every outcome of the shuffle.
Groups(pc, available) == SortedPrefixes(pc, available, TeamSize)

(* -------------------------- the three splits --------------------------- *)
combos(group) ==
    << <<<<group[1], group[2]>>, <<group[3], group[4]>>>>,
       <<<<group[1], group[3]>>, <<group[2], group[4]>>>>,
       <<<<group[1], group[4]>>, <<group[2], group[3]>>>> >>

\* p_cost, o_cost and total_cost of one split <<t1, t2>>.
total_cost(combo) ==
    LET t1 == combo[1]
        t2 == combo[2]
        p_cost == get_pair_cost(t1[1], t1[2]) + get_pair_cost(t2[1], t2[2])
        o_cost == get_opponent_cost(t1[1], t2[1]) + get_opponent_cost(t1[1], t2[2])
                  + get_opponent_cost(t1[2], t2[1]) + get_opponent_cost(t1[2], t2[2])
    IN  (p_cost * PartnerWeight) + o_cost

\* <= for <: the last of the cheapest splits wins.
ImprovesOrTies(cost, min_cost) == cost <= min_cost

\* if total_cost < min_cost: the comparison that replaces the best split so far.
Improves(cost, min_cost) == cost < min_cost

\* The loop over combos: best = 0 is best_combo = None (min_cost = inf).
RECURSIVE PickBest(_, _, _)
PickBest(cs, i, best) ==
    IF i > Len(cs) THEN best
    ELSE IF best = 0 \/ Improves(total_cost(cs[i]), total_cost(cs[best]))
         THEN PickBest(cs, i + 1, i)
         ELSE PickBest(cs, i + 1, best)

best_combo(group) == combos(group)[PickBest(combos(group), 1, 0)]

(* -------------------------- fill_empty_courts -------------------------- *)
\* Ascending list of a set of court ids (range(...) filtered keeps the order).
RECURSIVE Ascending(_)
Ascending(S) ==
    IF S = {} THEN <<>>
    ELSE LET m == CHOOSE x \in S : \A y \in S : x <= y
         IN  <<m>> \o Ascending(S \ {m})

\* The test for None forgotten: every court of 1..courts_num counts as empty.
empty_courts_all == Ascending(1..courts_num)

\* Every key of courts_status that holds None, courts above courts_num included.
empty_courts_any_key ==
    Ascending({cid \in DOMAIN courts_status : courts_status[cid] = None})

empty_courts == Ascending({cid \in 1..courts_num : Get(courts_status, cid, None) = None})

LogNothing == [kind |-> "Nothing", cid |-> 0, team1 |-> <<>>, team2 |-> <<>>, n |-> 0]
LogSkipped(cid, n) == [kind |-> "Skipped", cid |-> cid, team1 |-> <<>>, team2 |-> <<>>, n |-> n]
LogAssigned(cid, t1, t2) == [kind |-> "Assigned", cid |-> cid, team1 |-> t1, team2 |-> t2, n |-> 0]

\* The increment taken out of the loop: only the last player of the group gets it.
BumpPlayCountsLastOnly(pc, group) ==
    [p \in DOMAIN pc |-> IF p = group[Len(group)] THEN pc[p] + 1 ELSE pc[p]]

\* for p in group: busy_players.add(p); play_counts[p] += 1
BumpPlayCounts(pc, group) ==
    [p \in DOMAIN pc |-> IF p \in SeqToSet(group) THEN pc[p] + 1 ELSE pc[p]]

\* The body of the loop for one court, on the loop's state st =
\* [cs: courts_status, busy: busy_players, pc: play_counts, logs]: the set of
\* states it can leave (one per outcome of the shuffle).
FillOne(st, cid) ==
    LET available == get_available_players(st.busy) IN
    IF Cardinality(available) < TeamSize THEN
        {[st EXCEPT !.logs = Append(@, LogSkipped(cid, Cardinality(available)))]}
    ELSE
        {LET best == best_combo(group) IN
            [cs |-> [st.cs EXCEPT ![cid] =
                        [team1 |-> best[1], team2 |-> best[2], players |-> group]],
             busy |-> st.busy \cup SeqToSet(group),
             pc |-> BumpPlayCounts(st.pc, group),
             logs |-> Append(st.logs, LogAssigned(cid, best[1], best[2]))]
         : group \in Groups(st.pc, available)}

\* The closing loop skipped when the round assigned nobody.
UpdateRestsIfAssigned(busy) ==
    IF busy = busy_players THEN consecutive_rests
    ELSE [p \in DOMAIN consecutive_rests \cup players |->
             IF p \in players
             THEN IF p \in busy THEN 0 ELSE Get(consecutive_rests, p, 0) + 1
             ELSE consecutive_rests[p]]

\* The closing loop without its first branch: the busy keep their counter.
UpdateRestsKeepBusy(busy) ==
    [p \in DOMAIN consecutive_rests \cup players |->
        IF p \in players /\ p \notin busy
        THEN Get(consecutive_rests, p, 0) + 1
        ELSE consecutive_rests[p]]

\* The closing loop over everybody who ever registered, the removed included.
UpdateRestsEverybody(busy) ==
    [p \in DOMAIN play_counts |->
        IF p \in busy THEN 0 ELSE Get(consecutive_rests, p, 0) + 1]

\* The closing loop without its reset: one more round of rest for everybody.
UpdateRestsAllIncrement(busy) ==
    [p \in DOMAIN consecutive_rests \cup players |->
        IF p \in players
        THEN Get(consecutive_rests, p, 0) + 1
        ELSE consecutive_rests[p]]

\* The loop that closes the round: rest counters of everybody in self.players.
UpdateRests(busy) ==
    [p \in DOMAIN consecutive_rests \cup players |->
        IF p \in players
        THEN IF p \in busy THEN 0 ELSE Get(consecutive_rests, p, 0) + 1
        ELSE consecutive_rests[p]]

\* The state the round leaves, once the loop over the courts has ended in st.
EndRound(st) ==
    /\ courts_status' = st.cs
    /\ busy_players' = st.busy
    /\ play_counts' = st.pc
    /\ consecutive_rests' = UpdateRests(st.busy)
    /\ ret' = Return("fill_empty_courts", 0, TRUE, "", st.logs)
    /\ UNCHANGED <<players, courts_num, partner_history, opponent_history,
                   match_history>>

\* break for continue: the loop over the courts ends at the first skipped one.
RECURSIVE FillCourtsBreak(_, _)
FillCourtsBreak(st, cids) ==
    IF cids = <<>> \/ (st.logs # <<>> /\ st.logs[Len(st.logs)].kind = "Skipped")
    THEN EndRound(st)
    ELSE \E s2 \in FillOne(st, Head(cids)) : FillCourtsBreak(s2, Tail(cids))

\* for cid in empty_courts: ..., then the closing loop.
RECURSIVE FillCourts(_, _)
FillCourts(st, cids) ==
    IF cids = <<>> THEN EndRound(st)
    ELSE \E s2 \in FillOne(st, Head(cids)) : FillCourts(s2, Tail(cids))

fill_empty_courts ==
    IF empty_courts = <<>> THEN
        /\ ret' = Return("fill_empty_courts", 0, TRUE, "", <<LogNothing>>)
        /\ UNCHANGED <<players, courts_num, play_counts, consecutive_rests,
                       partner_history, opponent_history, match_history,
                       courts_status, busy_players>>
    ELSE
        FillCourts([cs |-> courts_status, busy |-> busy_players,
                    pc |-> play_counts, logs |-> <<>>], empty_courts)

(* ------------------------------ export_data ---------------------------- *)
\* consecutive_rests.get(name, "-"): the dash of a participant without a counter.
NoRest == -1

\* The rows of df_stats before the sort: per name of play_counts, whether the
\* name carries the "left" suffix, the play count, the rest counter or the dash.
export_stats ==
    [name \in DOMAIN play_counts |->
        [left |-> name \notin players,
         count |-> play_counts[name],
         rest |-> Get(consecutive_rests, name, NoRest)]]

(* ----------------------------- finish_match ---------------------------- *)
\* d[key] = d.get(key, 0) + 1
\* d[key] = 1 for d[key] = d.get(key, 0) + 1.
IncrementSet(d, key) ==
    [k \in DOMAIN d \cup {key} |-> IF k = key THEN 1 ELSE d[k]]

Increment(d, key) ==
    [k \in DOMAIN d \cup {key} |-> IF k = key THEN Get(d, key, 0) + 1 ELSE d[k]]

\* zip for the nested loop: only the pairs of players of the same rank.
RecordOpponentsZipped(d, t1, t2) ==
    Increment(Increment(d, SortedPair(t1[1], t2[1])), SortedPair(t1[2], t2[2]))

\* The nested loop over t1 x t2, in the code's order.
RecordOpponents(d, t1, t2) ==
    Increment(Increment(Increment(Increment(d,
        SortedPair(t1[1], t2[1])), SortedPair(t1[1], t2[2])),
        SortedPair(t1[2], t2[1])), SortedPair(t1[2], t2[2]))

\* score_str if score_str else the "no record" sentinel
ScoreText(score_str) == IF score_str = "" THEN "NoRecord" ELSE score_str

Scores == {"", "21-15"}

\* The record appended before the test for a match.
finish_match_record_first(court_id, score_str) ==
    LET match == Get(courts_status, court_id, None) IN
    IF match = None THEN
        /\ match_history' = Append(match_history,
               [team1 |-> match.team1, team2 |-> match.team2,
                score |-> ScoreText(score_str)])
        /\ ret' = Return("finish_match", court_id, FALSE, "", <<>>)
        /\ UNCHANGED <<players, courts_num, play_counts, consecutive_rests,
                       partner_history, opponent_history,
                       courts_status, busy_players>>
    ELSE
        LET t1 == match.team1
            t2 == match.team2
        IN  /\ match_history' = Append(match_history,
                   [team1 |-> t1, team2 |-> t2, score |-> ScoreText(score_str)])
            /\ partner_history' =
                   Increment(Increment(partner_history, SortedPair(t1[1], t1[2])),
                             SortedPair(t2[1], t2[2]))
            /\ opponent_history' = RecordOpponents(opponent_history, t1, t2)
            /\ busy_players' = busy_players \ SeqToSet(match.players)
            /\ courts_status' = [courts_status EXCEPT ![court_id] = None]
            /\ ret' = Return("finish_match", court_id, TRUE, "", <<>>)
            /\ UNCHANGED <<players, courts_num, play_counts, consecutive_rests>>

finish_match(court_id, score_str) ==
    LET match == Get(courts_status, court_id, None) IN
    IF match = None THEN
        /\ ret' = Return("finish_match", court_id, FALSE, "", <<>>)
        /\ UNCHANGED <<players, courts_num, play_counts, consecutive_rests,
                       partner_history, opponent_history, match_history,
                       courts_status, busy_players>>
    ELSE
        LET t1 == match.team1
            t2 == match.team2
        IN  /\ match_history' = Append(match_history,
                   [team1 |-> t1, team2 |-> t2, score |-> ScoreText(score_str)])
            /\ partner_history' =
                   Increment(Increment(partner_history, SortedPair(t1[1], t1[2])),
                             SortedPair(t2[1], t2[2]))
            /\ opponent_history' = RecordOpponents(opponent_history, t1, t2)
            /\ busy_players' = busy_players \ SeqToSet(match.players)
            /\ courts_status' = [courts_status EXCEPT ![court_id] = None]
            /\ ret' = Return("finish_match", court_id, TRUE, "", <<>>)
            /\ UNCHANGED <<players, courts_num, play_counts, consecutive_rests>>

(* --------------------------- specifications ---------------------------- *)
\* Names are interchangeable, so the caller types a name for the first time in
\* the order 1, 2, 3, ...: a known name, or the next unused one.
KnownOrNext(S) == {n \in S : n <= Cardinality(DOMAIN play_counts) + 1}

\* One more call of the caller, up to the bound.
Count(max) == ops < max /\ ops' = ops + 1

Register == Count(MaxOps) /\ \E raw \in RawNames(KnownOrNext(Names)) : add_player(raw)

Remove == Count(MaxOps) /\ \E name \in Names : remove_player(name)

Resize == Count(MaxOps) /\ \E num \in 0..MaxCourts : update_courts_num(num)

FillIdleSlots == Count(MaxOps) /\ fill_empty_courts

FinishMatch ==
    /\ Count(MaxOps)
    /\ \E court_id \in 0..(MaxCourts + 1), score_str \in Scores :
           finish_match(court_id, score_str)

Next == Register \/ Remove \/ Resize \/ FillIdleSlots \/ FinishMatch

Spec == Init /\ [][Next]_vars

\* The closing-court session: eight names, so that two courts can be active and
\* a court above courts_num can be closing. The caller asks for a round when
\* a full match (and at most MaxWaiting players) waits, and enters results
\* until the history holds MaxHistoryClosing records, which keeps the outcomes
\* of the shuffle few.
RegisterClosing ==
    Count(MaxOpsClosing) /\ \E raw \in RawNames(KnownOrNext(NamesClosing)) : add_player(raw)

RemoveClosing == Count(MaxOpsClosing) /\ \E name \in LeaversClosing : remove_player(name)

ResizeClosing == Count(MaxOpsClosing) /\ \E num \in 0..MaxCourts : update_courts_num(num)

FillIdleSlotsClosing ==
    /\ Count(MaxOpsClosing)
    /\ Cardinality(get_available_players(busy_players)) \in TeamSize..MaxWaiting
    /\ fill_empty_courts

FinishMatchClosing ==
    /\ Count(MaxOpsClosing)
    /\ Len(match_history) < MaxHistoryClosing
    /\ \E court_id \in 0..(MaxCourts + 1), score_str \in Scores :
           finish_match(court_id, score_str)

NextClosing ==
    \/ RegisterClosing
    \/ RemoveClosing
    \/ ResizeClosing
    \/ FillIdleSlotsClosing
    \/ FinishMatchClosing

SpecClosing == Init /\ [][NextClosing]_vars

(* =============================== claims ================================ *)
\* The program's state without the record of the last call and the call count.
state == <<players, courts_num, play_counts, consecutive_rests,
           partner_history, opponent_history, match_history,
           courts_status, busy_players>>

Removed == DOMAIN play_counts \ players

\* The participants of the matches in the courts, closing courts included.
ActivePlayers == UNION {SeqToSet(courts_status[c].players) : c \in DOMAIN courts_status}

\* A step of fill_empty_courts, and the courts it took from idle to active.
FillStep == ret'.op = "fill_empty_courts"

Filled == {c \in DOMAIN courts_status :
              courts_status[c] = None /\ courts_status'[c] # None}

Placed == UNION {SeqToSet(courts_status'[c].players) : c \in Filled}

AssignedLogs == {i \in 1..Len(ret.logs) : ret.logs[i].kind = "Assigned"}

SkippedLogs == {i \in 1..Len(ret.logs) : ret.logs[i].kind = "Skipped"}

\* C1: in every reachable state the busy participants are exactly the
\* participants of the active courts (closing courts included): nobody is busy
\* without a match, nobody in a match is not busy.
C1_BusyEqualsActive == busy_players = ActivePlayers

\* C2: the play count of a name never decreases, whatever the call, a
\* registration after a removal included.
C2_PlayCountNeverDecreases ==
    [][\A p \in DOMAIN play_counts :
           p \in DOMAIN play_counts' /\ play_counts'[p] >= play_counts[p]]_vars

\* C3: one call of fill_empty_courts raises the play count of each participant
\* it places by exactly 1, leaves every other play count alone, and so raises
\* the sum of the play counts by 4 times the number of courts it filled.
C3_PlayCountPerRound ==
    [][FillStep =>
          /\ DOMAIN play_counts' = DOMAIN play_counts
          /\ \A p \in DOMAIN play_counts :
                 play_counts'[p] = play_counts[p] + (IF p \in Placed THEN 1 ELSE 0)
          /\ SumOver(play_counts', DOMAIN play_counts')
                 = SumOver(play_counts, DOMAIN play_counts) + 4 * Cardinality(Filled)]_vars

\* C3's case: a round that filled one court and had to skip the other, with
\* somebody left waiting.
C3_Witness ==
    /\ ret.op = "fill_empty_courts"
    /\ Cardinality(AssignedLogs) = 1
    /\ Cardinality(SkippedLogs) = 1
    /\ players \ busy_players # {}

(* ------------------------------- C4 ------------------------------------ *)
\* The ledger read by the names of a pair, in either order.
PairCount(h, a, b) ==
    IF <<a, b>> \in DOMAIN h THEN h[<<a, b>>]
    ELSE IF <<b, a>> \in DOMAIN h THEN h[<<b, a>>] ELSE 0

\* The three splits of g0..g3 (here g[1]..g[4]) in the order of enumeration.
SplitsOf(g) ==
    << <<{g[1], g[2]}, {g[3], g[4]}>>,
       <<{g[1], g[3]}, {g[2], g[4]}>>,
       <<{g[1], g[4]}, {g[2], g[3]}>> >>

PairCountOfTeam(h, team) ==
    LET a == CHOOSE x \in team : TRUE
        b == CHOOSE x \in team \ {a} : TRUE
    IN  PairCount(h, a, b)

CrossPairs(split) == {<<a, b>> : a \in split[1], b \in split[2]}

RECURSIVE SumPairs(_, _)
SumPairs(h, pairs) ==
    IF pairs = {} THEN 0
    ELSE LET pr == CHOOSE x \in pairs : TRUE
         IN  PairCount(h, pr[1], pr[2]) + SumPairs(h, pairs \ {pr})

WeightedCost(split) ==
    1000 * (PairCountOfTeam(partner_history, split[1])
            + PairCountOfTeam(partner_history, split[2]))
    + SumPairs(opponent_history, CrossPairs(split))

\* The place, 1..3, of the split a court holds among the splits of its group.
ChosenSplit(m) ==
    CHOOSE i \in 1..3 :
        SplitsOf(m.players)[i] = <<SeqToSet(m.team1), SeqToSet(m.team2)>>

IsFirstMinimum(m) ==
    /\ \E i \in 1..3 : SplitsOf(m.players)[i] = <<SeqToSet(m.team1), SeqToSet(m.team2)>>
    /\ LET i == ChosenSplit(m)
           cost(j) == WeightedCost(SplitsOf(m.players)[j])
       IN  /\ \A j \in 1..3 : cost(i) <= cost(j)
           /\ \A j \in 1..3 : j < i => cost(j) > cost(i)

\* C4: right after fill_empty_courts (which leaves the ledger alone), every
\* court it assigned holds, of the three splits of its priority-ordered group
\* g0..g3, the one of least cost 1000 x partner cost + opponent cost, and the
\* first of them in the order of enumeration when several are least.
C4_FirstMinimumSplit ==
    ret.op = "fill_empty_courts" =>
        \A i \in AssignedLogs :
            LET m == courts_status[ret.logs[i].cid]
            IN  /\ m.team1 = ret.logs[i].team1
                /\ m.team2 = ret.logs[i].team2
                /\ IsFirstMinimum(m)

\* C4's case: the first split repeats a partnership, the other two tie, and the
\* second one is chosen.
C4_Witness ==
    /\ ret.op = "fill_empty_courts"
    /\ \E i \in AssignedLogs :
           LET m == courts_status[ret.logs[i].cid]
               cost(j) == WeightedCost(SplitsOf(m.players)[j])
           IN  /\ ChosenSplit(m) = 2
               /\ cost(1) >= 1000
               /\ cost(2) = cost(3)

(* ------------------------------- C5 ------------------------------------ *)
\* q comes strictly before p in the priority: more rest, or as much and fewer plays.
StrictlyHigher(q, p) ==
    \/ consecutive_rests[q] > consecutive_rests[p]
    \/ consecutive_rests[q] = consecutive_rests[p] /\ play_counts[q] < play_counts[p]

\* The participants available when the round reaches court c: the ones
\* available at the call, without those the round put on a lower court.
AvailableAt(c) ==
    (players \ busy_players)
        \ UNION {SeqToSet(courts_status'[d].players) : d \in {e \in Filled : e < c}}

\* C5: the 4 participants fill_empty_courts puts on a court are a top 4 of those
\* available at that moment: nobody left out has more rest than a chosen one,
\* or as much rest and fewer plays.
C5_TopFourByPriority ==
    [][FillStep =>
          \A c \in Filled :
              LET g == SeqToSet(courts_status'[c].players)
              IN  /\ Cardinality(g) = 4
                  /\ g \subseteq AvailableAt(c)
                  /\ \A q \in AvailableAt(c) \ g : \A p \in g : ~StrictlyHigher(q, p)]_vars

\* C5's case: somebody who sat out the first match is placed in the second
\* round while somebody who played it waits.
InHistory(p) ==
    \E i \in 1..Len(match_history) :
        p \in SeqToSet(match_history[i].team1) \cup SeqToSet(match_history[i].team2)

C5_Witness ==
    /\ ret.op = "fill_empty_courts"
    /\ Len(match_history) >= 1
    /\ \E p \in busy_players, q \in players \ busy_players :
           /\ ~InHistory(p) /\ play_counts[p] = 1
           /\ InHistory(q) /\ play_counts[q] = 1 /\ consecutive_rests[q] = 1

(* ------------------------------- C6 ------------------------------------ *)
NoIdleCourt == \A c \in 1..courts_num : courts_status[c] # None

\* C6: fill_empty_courts called while no court of 1..courts_num is idle returns
\* the single "nothing to do" entry and changes nothing.
C6_NothingToFill ==
    [][(FillStep /\ NoIdleCourt) =>
          (ret'.logs = <<LogNothing>> /\ UNCHANGED state)]_vars

C6_Witness ==
    /\ ret.op = "fill_empty_courts"
    /\ ret.logs = <<LogNothing>>
    /\ \A c \in 1..courts_num : courts_status[c] # None

(* ------------------------------- C7 ------------------------------------ *)
IdleCourts == {c \in 1..courts_num : courts_status[c] = None}

\* C7: a court the round reaches with fewer than 4 available participants stays
\* idle and gets a Skipped entry with their number; only the participants of the
\* courts the round did fill become busy; and the rest counters of everybody
\* registered are still updated, 0 for the busy and one more for the others.
C7_SkippedCourt ==
    [][FillStep =>
          /\ \A c \in IdleCourts :
                 Cardinality(AvailableAt(c)) < 4 =>
                     /\ courts_status'[c] = None
                     /\ \E i \in 1..Len(ret'.logs) :
                            /\ ret'.logs[i].kind = "Skipped"
                            /\ ret'.logs[i].cid = c
                            /\ ret'.logs[i].n = Cardinality(AvailableAt(c))
          /\ busy_players' = busy_players \cup Placed
          /\ IdleCourts # {} =>
                 \A p \in players :
                     consecutive_rests'[p] =
                         IF p \in busy_players' THEN 0 ELSE consecutive_rests[p] + 1]_vars

\* C7's case: a round that filled no court, skipped one for want of players,
\* and still counted a rest for somebody.
C7_Witness ==
    /\ ret.op = "fill_empty_courts"
    /\ SkippedLogs # {}
    /\ AssignedLogs = {}
    /\ \E p \in players : consecutive_rests[p] >= 1

(* ------------------------------- C8 ------------------------------------ *)
\* C8: a successful remove_player(p) of a participant who is not busy takes p
\* out of the available participants and out of the list add_player checks for
\* duplicates, deletes p's rest counter, and leaves p's play count (still
\* exported, with the "left" mark), everybody else's counters, the courts, the
\* ledger and the history as they were.
C8_RemoveKeepsPlayCount ==
    [][/\ (ret'.op = "add_player" /\ ret'.arg # 0 /\ ret'.arg \notin players) => ret'.ok
       /\ (ret'.op = "remove_player" /\ ret'.ok) =>
          LET p == ret'.arg
          IN  /\ p \in players /\ p \notin busy_players
              /\ p \notin players'
              /\ players' = players \ {p}
              /\ DOMAIN consecutive_rests' = DOMAIN consecutive_rests \ {p}
              /\ \A q \in DOMAIN consecutive_rests' :
                     consecutive_rests'[q] = consecutive_rests[q]
              /\ play_counts' = play_counts
              /\ export_stats'[p] =
                     [left |-> TRUE, count |-> play_counts[p], rest |-> NoRest]
              /\ UNCHANGED <<courts_num, partner_history, opponent_history,
                             match_history, courts_status, busy_players>>]_vars

\* C8's case: a participant who has played was removed.
C8_Witness ==
    /\ ret.op = "remove_player" /\ ret.ok
    /\ play_counts[ret.arg] >= 1
    /\ ret.arg \notin players
    /\ ret.arg \notin DOMAIN consecutive_rests

(* ------------------------------- C9 ------------------------------------ *)
\* C9: finish_match on a court without an active match, idle or unknown, returns
\* false and changes nothing; so does a second finish_match on a court just
\* finished.
C9_FinishIdleCourt ==
    [][(ret'.op = "finish_match" /\ Get(courts_status, ret'.arg, None) = None) =>
          (~ret'.ok /\ UNCHANGED state)]_vars

\* C9's case: finish_match failed on the court whose match is the last of the
\* history.
C9_Witness ==
    /\ ret.op = "finish_match" /\ ~ret.ok
    /\ ret.arg \in DOMAIN courts_status
    /\ Len(match_history) >= 1
    /\ SeqToSet(match_history[Len(match_history)].team1) \cap busy_players = {}

(* ------------------------------- C10 ----------------------------------- *)
\* C10: no removed participant is busy or in an active court, and a round that
\* just ran placed nobody who was removed when it was called.
C10_RemovedNeverBusy ==
    /\ busy_players \cap Removed = {}
    /\ ActivePlayers \cap Removed = {}
    /\ ret.op = "fill_empty_courts" =>
           \A i \in AssignedLogs :
               (SeqToSet(ret.logs[i].team1) \cup SeqToSet(ret.logs[i].team2))
                   \cap Removed = {}

\* C10's case: a round filled a court while a removed participant was around.
C10_Witness ==
    /\ ret.op = "fill_empty_courts"
    /\ AssignedLogs # {}
    /\ Removed # {}

(* ------------------------------- C11 ----------------------------------- *)
\* C11: remove_player of a name that is not registered fails as "not found",
\* of a participant in an active match fails as "busy", and both leave the
\* whole state as it was; a participant leaves the busy set only by a
\* successful finish_match, and only then can be removed.
C11_RemoveFailures ==
    [][/\ ret'.op = "remove_player" =>
              /\ ret'.arg \notin players =>
                     (~ret'.ok /\ ret'.msg = "notfound" /\ UNCHANGED state)
              /\ ret'.arg \in players \cap ActivePlayers =>
                     (~ret'.ok /\ ret'.msg = "busy" /\ UNCHANGED state)
              /\ ret'.ok => ret'.arg \notin busy_players \cup ActivePlayers
       /\ \A p \in busy_players :
              p \notin busy_players' =>
                  /\ ret'.op = "finish_match" /\ ret'.ok
                  /\ p \in SeqToSet(courts_status[ret'.arg].players)]_vars

\* C11's case: a removal refused because the participant is on a court.
C11_Witness ==
    /\ ret.op = "remove_player" /\ ~ret.ok /\ ret.msg = "busy"
    /\ ret.arg \in ActivePlayers
    /\ ret.arg \in players

(* ------------------------------- C12 ----------------------------------- *)
\* C12: add_player fails as "empty" on a name that is empty once trimmed and as
\* "duplicate" on the name of a registered participant, changing nothing;
\* otherwise it registers the name with play count 0 and rest count 0 and
\* leaves every other participant, the courts, the ledger and the history alone.
C12_Register ==
    [][ret'.op = "add_player" =>
          LET name == ret'.arg
          IN  /\ name = 0 => (~ret'.ok /\ ret'.msg = "empty" /\ UNCHANGED state)
              /\ (name # 0 /\ name \in players) =>
                     (~ret'.ok /\ ret'.msg = "duplicate" /\ UNCHANGED state)
              /\ (name # 0 /\ name \notin players) =>
                     /\ ret'.ok
                     /\ players' = players \cup {name}
                     /\ name \notin busy_players'
                     /\ play_counts'[name] = 0
                     /\ consecutive_rests'[name] = 0
                     /\ \A q \in DOMAIN play_counts' \ {name} :
                            q \in DOMAIN play_counts /\ play_counts'[q] = play_counts[q]
                     /\ \A q \in DOMAIN consecutive_rests' \ {name} :
                            /\ q \in DOMAIN consecutive_rests
                            /\ consecutive_rests'[q] = consecutive_rests[q]
                     /\ UNCHANGED <<courts_num, partner_history, opponent_history,
                                    match_history, courts_status, busy_players>>]_vars

\* C12's case: a name removed earlier is registered again, beside participants
\* who have played.
C12_Witness ==
    /\ ret.op = "add_player" /\ ret.ok
    /\ InHistory(ret.arg)
    /\ play_counts[ret.arg] = 0
    /\ \E q \in players : play_counts[q] >= 1

(* ------------------------------- C13 ----------------------------------- *)
\* C13: the match of an active court is cleared or replaced by nothing but a
\* finish_match on that court: not by a resize (shrinking below it or growing
\* past it again), a registration, a removal or a round.
C13_ActiveUntilFinished ==
    [][\A c \in DOMAIN courts_status :
           (courts_status[c] # None /\ courts_status'[c] # courts_status[c]) =>
               (ret'.op = "finish_match" /\ ret'.arg = c)]_vars

(* ------------------------------- C14 ----------------------------------- *)
\* The rest counters after a round: 0 for the busy, one more for the others.
RestsUpdated ==
    \A p \in players :
        /\ p \in DOMAIN consecutive_rests'
        /\ consecutive_rests'[p] =
               IF p \in busy_players' THEN 0 ELSE consecutive_rests[p] + 1

\* C14 as claimed: every call of fill_empty_courts updates the rest counters of
\* the whole roster, 0 for the busy and one more for everybody else.
C14_EveryCallUpdatesRests == [][FillStep => RestsUpdated]_vars

\* C14, amended: every call of fill_empty_courts that finds an idle court in
\* 1..courts_num updates the rest counters of the whole roster exactly once,
\* however many courts it fills, none included: 0 for the busy, one more for
\* everybody else, no counter for anybody removed. A call that finds no idle
\* court leaves every counter as it was.
C14_RoundUpdatesRests ==
    [][FillStep =>
          /\ IdleCourts # {} =>
                 (RestsUpdated /\ DOMAIN consecutive_rests' = players)
          /\ IdleCourts = {} => consecutive_rests' = consecutive_rests]_vars

\* C14's case: a round filled a court and left somebody waiting.
C14_Witness ==
    /\ ret.op = "fill_empty_courts"
    /\ AssignedLogs # {}
    /\ \E p \in busy_players : consecutive_rests[p] = 0
    /\ \E q \in players \ busy_players : consecutive_rests[q] >= 1

(* ------------------------------- C15 ----------------------------------- *)
\* The pairs, as sets of two names, whose count went up by exactly 1, and
\* whether every other count of the ledger h stayed (hNew is h after the step).
RaisedByOne(h, hNew, pairs) ==
    /\ \A pr \in pairs :
           \E a \in pr, b \in pr :
               a # b /\ PairCount(hNew, a, b) = PairCount(h, a, b) + 1
    /\ \A k \in DOMAIN hNew :
           {k[1], k[2]} \notin pairs => (k \in DOMAIN h /\ hNew[k] = h[k])
    /\ DOMAIN h \subseteq DOMAIN hNew

\* C15: a successful finish_match appends one history record with the court's
\* teams, raises by 1 the partner count of the two teams and the opponent count
\* of the 4 cross pairs and no other count, frees exactly the court's 4
\* participants (registered, so available to the next round), empties the
\* court, and leaves play counts, rest counters and the other courts alone.
C15_FinishRecordsMatch ==
    [][(ret'.op = "finish_match" /\ ret'.ok) =>
          LET c == ret'.arg
              m == courts_status[c]
              t1 == SeqToSet(m.team1)
              t2 == SeqToSet(m.team2)
          IN  /\ Len(match_history') = Len(match_history) + 1
              /\ SubSeq(match_history', 1, Len(match_history)) = match_history
              /\ match_history'[Len(match_history')].team1 = m.team1
              /\ match_history'[Len(match_history')].team2 = m.team2
              /\ Cardinality(t1) = 2 /\ Cardinality(t2) = 2 /\ t1 \cap t2 = {}
              /\ RaisedByOne(partner_history, partner_history', {t1, t2})
              /\ RaisedByOne(opponent_history, opponent_history',
                             {{a, b} : a \in t1, b \in t2})
              /\ busy_players' = busy_players \ (t1 \cup t2)
              /\ t1 \cup t2 \subseteq busy_players
              /\ t1 \cup t2 \subseteq players' \ busy_players'
              /\ courts_status'[c] = None
              /\ \A d \in DOMAIN courts_status \ {c} :
                     courts_status'[d] = courts_status[d]
              /\ DOMAIN courts_status' = DOMAIN courts_status
              /\ UNCHANGED <<players, courts_num, play_counts,
                             consecutive_rests>>]_vars

\* C15's case: a second match finished, between participants the ledger
\* already knows.
C15_Witness ==
    /\ ret.op = "finish_match" /\ ret.ok
    /\ Len(match_history) = 2
    /\ \E k \in DOMAIN opponent_history : opponent_history[k] = 2

(* ------------------------------- C16 ----------------------------------- *)
\* C16: fill_empty_courts assigns matches only to courts that are idle and
\* within 1..courts_num when it is called, and goes through exactly those
\* courts in ascending order; a court above courts_num, closing or left over
\* from a shrink, gets neither a match nor a log entry.
C16_OnlyIdleCourtsInRange ==
    [][(FillStep /\ IdleCourts # {}) =>
          /\ Filled \subseteq IdleCourts
          /\ \A c \in DOMAIN courts_status :
                 c > courts_num => courts_status'[c] = courts_status[c]
          /\ \A i \in 1..Len(ret'.logs) : ret'.logs[i].cid \in IdleCourts
          /\ \A i \in 1..Len(ret'.logs) : \A j \in 1..Len(ret'.logs) :
                 i < j => ret'.logs[i].cid < ret'.logs[j].cid
          /\ \A c \in Filled :
                 \E i \in 1..Len(ret'.logs) :
                     ret'.logs[i].cid = c /\ ret'.logs[i].kind = "Assigned"]_vars

\* C16's case: a round filled court 1 while an idle court above courts_num was
\* left alone.
C16_Witness ==
    /\ ret.op = "fill_empty_courts"
    /\ AssignedLogs # {}
    /\ \E c \in DOMAIN courts_status : c > courts_num /\ courts_status[c] = None

(* ------------------------------- C17 ----------------------------------- *)
\* The entries of the log the call returns that are about court c.
LogsOf(c) ==
    {i \in 1..Len(ret'.logs) :
        ret'.logs[i].cid = c /\ ret'.logs[i].kind \in {"Assigned", "Skipped"}}

\* C17: a skipped court does not end the round: every court idle in
\* 1..courts_num at the call gets exactly one log entry, Assigned or Skipped,
\* and when the call returns no court of 1..courts_num is idle while 4 or more
\* participants are available.
C17_SkipDoesNotAbort ==
    [][FillStep =>
          /\ \A c \in IdleCourts : Cardinality(LogsOf(c)) = 1
          /\ \A c \in IdleCourts :
                 courts_status'[c] = None =>
                     \A i \in LogsOf(c) : ret'.logs[i].kind = "Skipped"
          /\ ~ \E c \in 1..courts_num' :
                   /\ courts_status'[c] = None
                   /\ Cardinality(players' \ busy_players') >= TeamSize]_vars

\* C17's case: a round skipped court 1 and still went on to court 2.
C17_Witness ==
    /\ ret.op = "fill_empty_courts"
    /\ Len(ret.logs) = 2
    /\ ret.logs[1].kind = "Skipped" /\ ret.logs[1].cid = 1
    /\ ret.logs[2].kind = "Skipped" /\ ret.logs[2].cid = 2
    /\ players # {}

(* ------------------------------- C18 ----------------------------------- *)
\* C18: consecutive_rests holds a count, 0 or more, for exactly the registered
\* participants: one for everybody in players, none for anybody removed, also
\* after the rounds that follow a removal.
C18_RestsOfRegisteredOnly ==
    /\ DOMAIN consecutive_rests = players
    /\ \A p \in players : consecutive_rests[p] \in Nat
    /\ \A p \in Removed : p \notin DOMAIN consecutive_rests

\* C18's case: a round that filled a court after somebody had been removed.
C18_Witness ==
    /\ Removed # {}
    /\ ret.op = "fill_empty_courts"
    /\ AssignedLogs # {}
    /\ \E p \in players \ busy_players : consecutive_rests[p] >= 1

(* ------------------------------- C19 ----------------------------------- *)
\* The ledger h agrees with a history of n records, each adding perMatch counts.
LedgerTotal(h, n, perMatch) == SumOver(h, DOMAIN h) = perMatch * n

\* C19: the partner and opponent counts agree with the match history: no count
\* ever goes down, the partner counts add up to 2 per history record and the
\* opponent counts to 4 per record, and only a successful finish_match changes
\* the ledger or the history.
C19_LedgerMatchesHistory ==
    [][/\ LedgerTotal(partner_history, Len(match_history), 2)
       /\ LedgerTotal(opponent_history, Len(match_history), 4)
       /\ LedgerTotal(partner_history', Len(match_history'), 2)
       /\ LedgerTotal(opponent_history', Len(match_history'), 4)
       /\ \A k \in DOMAIN partner_history :
              k \in DOMAIN partner_history' /\ partner_history'[k] >= partner_history[k]
       /\ \A k \in DOMAIN opponent_history :
              k \in DOMAIN opponent_history' /\ opponent_history'[k] >= opponent_history[k]
       /\ ~(ret'.op = "finish_match" /\ ret'.ok) =>
              UNCHANGED <<partner_history, opponent_history, match_history>>]_vars

\* C19's case: two matches are in the history, and two participants have met
\* as opponents in both.
C19_Witness ==
    /\ Len(match_history) = 2
    /\ \E k \in DOMAIN opponent_history : opponent_history[k] = 2
    /\ SumOver(opponent_history, DOMAIN opponent_history) = 8
    /\ SumOver(partner_history, DOMAIN partner_history) = 4

(* ------------------------------- C20 ----------------------------------- *)
\* The rest counter of x, 0 for somebody without one.
Rests(x) == Get(consecutive_rests, x, 0)

RestsAfter(x) == Get(consecutive_rests', x, 0)

\* C20: no overtaking. A round that places q and passes over an available p
\* leaves p with more rest than q; while p stays registered and available no
\* step, whatever it does to q, takes that lead away; and a round that places
\* somebody with less rest than an available p places p too. So q is not
\* placed a second time while p waits.
C20_NoOvertaking ==
    [][/\ FillStep =>
              \A q \in Placed : \A p \in (players \ busy_players) \ Placed :
                  /\ RestsAfter(p) > RestsAfter(q)
                  /\ Rests(p) <= Rests(q)
       /\ \A p \in (players \ busy_players) \cap (players' \ busy_players') :
              \A q \in Names \ {p} :
                  Rests(p) > Rests(q) => RestsAfter(p) > RestsAfter(q)]_vars

\* C20's case: q played the first match while p waited, and the second round
\* that places q places p as well.
C20_Witness ==
    /\ ret.op = "fill_empty_courts"
    /\ Len(match_history) >= 1
    /\ \E p \in busy_players, q \in busy_players :
           /\ ~InHistory(p) /\ play_counts[p] = 1
           /\ InHistory(q) /\ play_counts[q] = 2

====
